---- MODULE Spec2Model ----
(***************************************************************************)
(* The knowledge-base embedding index of AIDLEX.AE (src/server.js): the    *)
(* in-memory collections kbFiles / kbChunks, the builder indexKB, the      *)
(* search handler POST /api/kb/search and the re-index handler             *)
(* POST /api/kb/index, as one asynchronous single-threaded state machine.  *)
(*                                                                         *)
(* One action is one run-to-completion slice of JavaScript: from the       *)
(* moment a handler (or a continuation after an await) is entered until it *)
(* suspends at the next await of a network call or returns.  The only      *)
(* suspension points of the modelled code are the awaits of openaiEmbed.   *)
(*                                                                         *)
(* Spec      : the server as written (boot = top-level "await indexKB()"). *)
(* BigSpec   : the same server on document roots of more than 20 windows.  *)
(* ChunkSpec : the function chunk taken alone, on every small argument.    *)
(* CacheSpec : the start-up path with the durable cache (hydrate or build, *)
(*             persist); that code is exercised by                         *)
(*             src/app/__tests__/kb.spec.js but is not part of             *)
(*             src/server.js, so it is modelled from the specification.    *)
(* RestartSpec : CacheSpec with restarts of the process.                   *)
(***************************************************************************)
EXTENDS Integers, Sequences, FiniteSets, TLC

VARIABLES
    phase,        \* "boot" | "listening" | "crashed": position of the module's top level
    kbDir,        \* the documents under KB_DIR, in readAllFiles order
    kbFiles,      \* const kbFiles = []   (src/server.js:151)
    kbChunks,     \* const kbChunks = []  (src/server.js:152)
    builds,       \* one record per invocation of indexKB (0 = the start-up one)
    reindexResp,  \* response of each POST /api/kb/index request
    searches,     \* one record per POST /api/kb/search request
    searchResp,   \* response of each search request
    reads,        \* history: what each search read from kbFiles/kbChunks, in order
    embedCalls,   \* history: calls of openaiEmbed made by builds and by searches
    buildEntries, \* history: number of times indexKB was entered
    failures,     \* number of failed Embedding Client calls so far
    cacheFile,    \* the durable cache payload (CacheSpec only)
    kbInfo,       \* descriptor of the current generation (CacheSpec only)
    cache0,       \* history: the cache payload found at start-up (CacheSpec only)
    reindexKey,   \* history: the x-admin-key header of each re-index request
    persistedGen, \* history: the generation last handed to persist()
    frame,        \* the activation of chunk() or cosine() taken alone: arguments, locals
    now,          \* Date.now(), in milliseconds since the module was loaded
    adminRateHits,\* const adminRateHits = new Map()  (src/server.js:89)
    adminSeen,    \* history: the times of all admin requests of each client IP
    adminLast,    \* the admin request handled last: IP, key, status
    history,      \* the content of HISTORY_FP (data/history.json)
    logged,       \* history: the number of logEvent calls so far
    chatPc,       \* position of the GET /api/chat handler
    doneSent,     \* let doneSent = false  (src/server.js:365)
    writableEnded,\* res.writableEnded
    aborted,      \* controller.signal.aborted
    resOut,       \* history: the writes to the response, in order
    upstream      \* number of values the upstream reader has delivered

vars == <<phase, kbDir, kbFiles, kbChunks, builds, reindexResp, searches,
          searchResp, reads, embedCalls, buildEntries, failures, cacheFile, kbInfo, cache0,
          reindexKey, persistedGen, frame, now, adminRateHits, adminSeen, adminLast,
          history, logged, chatPc, doneSent, writableEnded, aborted, resOut, upstream>>

\* the state of the knowledge-base index and its handlers
kbVars == <<phase, kbDir, kbFiles, kbChunks, builds, reindexResp, searches,
            searchResp, reads, embedCalls, buildEntries, failures, cacheFile, kbInfo,
            cache0, reindexKey, persistedGen>>

\* the admin rate limiter, the event log and the chat stream
rateVars == <<now, adminRateHits, adminSeen, adminLast>>
logVars == <<history, logged>>
chatVars == <<chatPc, doneSent, writableEnded, aborted, resOut, upstream>>
sideVars == <<rateVars, logVars, chatVars>>

----------------------------------------------------------------------------
(* Bounds of the model *)

MaxRequests == 3
MaxFailures == 1
\* chunk() taken alone: longest text and largest size/overlap arguments
MaxLen == 6
MaxSize == 3

(* Program constants *)

ChunkSize == 2500
ChunkOverlap == 250
ScoredLimit == 20
TopK == 5
ADMIN_KEY == "4868"
KB_CACHE_VERSION == 2

ReindexIds == 1..MaxRequests
SearchIds == 1..MaxRequests
BuildIds == 0..MaxRequests

Min(a, b) == IF a < b THEN a ELSE b

NullMeta == "null"
None == "none"

----------------------------------------------------------------------------
(* The content of a document, as far as parseFrontJSON looks at it: a      *)
(* sequence over "{", "}", "q" (a double quote), "x" (any other text) and  *)
(* " " (white space).                                                      *)

\* s.trim()
TrimSeq(s) ==
    LET keep == {i \in 1..Len(s) : s[i] # " "} IN
    IF keep = {} THEN <<>>
    ELSE SubSeq(s, CHOOSE i \in keep : \A j \in keep : i <= j,
                   CHOOSE i \in keep : \A j \in keep : j <= i)

\* for (let i=0;i<s.length;i++) { if (c==='{') depth++; else if (c==='}')
\* { depth--; if (depth===0) { end = i+1; break; } } }: the number of
\* characters up to the brace that closes the first one, 0 when none does
\* (end = -1 in the source).
RECURSIVE ScanEnd(_, _, _)
ScanEnd(s, i, depth) ==
    IF i > Len(s) THEN 0
    ELSE IF s[i] = "{" THEN ScanEnd(s, i + 1, depth + 1)
    ELSE IF s[i] = "}" THEN (IF depth - 1 = 0 THEN i ELSE ScanEnd(s, i + 1, depth - 1))
    ELSE ScanEnd(s, i + 1, depth)

\* The end of the JSON object that starts at s[1], by the JSON grammar: a
\* brace between two double quotes is part of a string.  0 when the object
\* is never closed.
RECURSIVE JSONObjectEnd(_, _, _, _)
JSONObjectEnd(s, i, depth, inString) ==
    IF i > Len(s) THEN 0
    ELSE IF s[i] = "q" THEN JSONObjectEnd(s, i + 1, depth, ~inString)
    ELSE IF inString THEN JSONObjectEnd(s, i + 1, depth, inString)
    ELSE IF s[i] = "{" THEN JSONObjectEnd(s, i + 1, depth + 1, inString)
    ELSE IF s[i] = "}" THEN (IF depth - 1 = 0 THEN i
                             ELSE JSONObjectEnd(s, i + 1, depth - 1, inString))
    ELSE JSONObjectEnd(s, i + 1, depth, inString)

\* JSON.parse(text) returns an object (does not throw)
JSONParses(text) ==
    /\ Len(text) > 0
    /\ text[1] = "{"
    /\ JSONObjectEnd(text, 1, 0, FALSE) = Len(text)

\* function parseFrontJSON(s): <<meta, body>>, with obj the object that the
\* leading JSON text of the document denotes
parseFrontJSON(raw, obj) ==
    LET s == TrimSeq(raw)
        end == ScanEnd(s, 1, 0)
    IN  IF s = <<>> \/ s[1] # "{" THEN <<NullMeta, s>>
        ELSE IF end = 0 THEN <<NullMeta, s>>
        ELSE IF JSONParses(SubSeq(s, 1, end))
             THEN <<obj, TrimSeq(SubSeq(s, end + 1, Len(s)))>>
             ELSE <<NullMeta, s>>

----------------------------------------------------------------------------
(* The document root.  A document is its path below KB_DIR (".md" left     *)
(* out), its content (raw), the result of parseFrontJSON on that content   *)
(* (meta, NullMeta when parseFrontJSON returns null) and the length of the *)
(* text that indexKB embeds (JSON.stringify(meta) \n en \n ar).            *)

Doc(fp, raw, obj, len) ==
    [fp |-> fp, raw |-> raw, meta |-> parseFrontJSON(raw, obj)[1], len |-> len]

DocA == Doc(<<"kb", "a">>, <<"{", "x", "}", "x">>, "metaA", 1000)
DocB == Doc(<<"kb", "sub", "b">>, <<" ", "{", "x", "{", "x", "}", "}", "x">>, "metaB", 3000)
\* no leading brace
DocBad == Doc(<<"kb", "bad">>, <<"x", "{", "x", "}">>, "metaBad", 500)
\* the first brace is never closed
DocUnclosed == Doc(<<"kb", "unclosed">>, <<"{", "x", "{", "x", "}">>, "metaU", 700)
\* braces balance but the text between them is not JSON (a string is not closed)
DocGarbled == Doc(<<"kb", "garbled">>, <<"{", "q", "x", "}", "x">>, "metaG", 800)
\* a JSON object one of whose strings holds a closing brace
DocQuoted == Doc(<<"kb", "quoted">>, <<"{", "q", "}", "q", "}", "x">>, "metaQ", 1200)

\* a document of 21 windows
DocBig == Doc(<<"kb", "big">>, <<"{", "x", "}", "x">>, "metaBig", 46000)

\* Every document root of the model holds at least one valid document, as the
\* repository's kb/ directory does.
KBRoots ==
    { <<DocA, DocB>>, <<DocA, DocBad, DocB>>,
      <<DocBad, DocUnclosed, DocGarbled, DocQuoted, DocB>> }

\* Document roots with more windows than the search handler keeps after
\* sorting
BigRoots == { <<DocBig, DocB>>, <<DocA, DocBig>> }

\* a document whose only window scores like the windows of DocB, and a
\* document named like DocA in a subdirectory
DocC == Doc(<<"kb", "c">>, <<"{", "x", "}", "x">>, "metaC", 900)
DocSubA == Doc(<<"kb", "sub", "a">>, <<"{", "x", "}", "x">>, "metaSubA", 1100)

\* Document roots with equal scores in different files, and with one file
\* name in two directories
EdgeRoots == { <<DocC, DocB>>, <<DocA, DocSubA>> }

\* path.basename(fp, '.md')
Basename(fp) == fp[Len(fp)]

\* function chunk(text, size, overlap): the windows of the text, as offsets
RECURSIVE chunkFrom(_, _, _, _)
chunkFrom(i, len, size, overlap) ==
    IF i < len
    THEN <<[from |-> i, to |-> Min(i + size, len)]>>
             \o chunkFrom(i + (size - overlap), len, size, overlap)
    ELSE <<>>

chunk(len, size, overlap) == chunkFrom(0, len, size, overlap)

\* The Embedding Client: one vector per text, in order.  The vector of a window
\* is fixed by the document and the window's ordinal.
Embedding(fileId, idx) ==
    CASE fileId = "a" /\ idx = 0 -> <<1, 0>>
      [] fileId = "b" /\ idx = 0 -> <<0, 1>>
      [] fileId = "b" /\ idx = 1 -> <<0, -1>>
      [] OTHER -> <<0, 0>>

\* openaiEmbed(parts): j.data.map(d => d.embedding)
openaiEmbed(fileId, parts) == [i \in 1..Len(parts) |-> Embedding(fileId, i - 1)]

----------------------------------------------------------------------------
(* Records held in memory.  The field "build" is history: the invocation   *)
(* of indexKB that pushed the record.                                      *)

FileRec(doc, b) ==
    [id |-> Basename(doc.fp), file |-> doc.fp, meta |-> doc.meta, build |-> b]

ChunkRec(doc, idx, part, emb, b) ==
    [id |-> <<Basename(doc.fp), idx>>, fileId |-> Basename(doc.fp),
     text |-> [doc |-> doc.fp, from |-> part.from, to |-> part.to],
     meta |-> doc.meta, embedding |-> emb, build |-> b]

\* Mutation: a document without metadata is indexed like any other.
IsValidAlways(doc) == TRUE

\* if (!meta) continue;
IsValid(doc) == doc.meta # NullMeta

\* The next document at or after position i that indexKB does not skip
\* (Len(files) + 1 when there is none).
RECURSIVE NextValid(_, _)
NextValid(files, i) ==
    IF i > Len(files) THEN Len(files) + 1
    ELSE IF IsValid(files[i]) THEN i
    ELSE NextValid(files, i + 1)

\* Mutation: the vectors are attached to the windows in reverse order.
PushChunksReversed(chunks, doc, b) ==
    LET parts == chunk(doc.len, ChunkSize, ChunkOverlap)
        embeds == openaiEmbed(Basename(doc.fp), parts)
    IN chunks \o [i \in 1..Len(embeds) |->
                     ChunkRec(doc, i - 1, parts[i], embeds[Len(embeds) + 1 - i], b)]

\* embeds.forEach((emb, idx) => kbChunks.push({...}))
PushChunks(chunks, doc, b) ==
    LET parts == chunk(doc.len, ChunkSize, ChunkOverlap)
        embeds == openaiEmbed(Basename(doc.fp), parts)
    IN chunks \o [i \in 1..Len(embeds) |->
                     ChunkRec(doc, i - 1, parts[i], embeds[i], b)]

ActiveBuilds == {b \in BuildIds : builds[b].st = "await"}

NoBuild == [st |-> None, caller |-> None, idx |-> 0,
            fromReady |-> FALSE, prevFiles |-> <<>>, prevChunks |-> <<>>]

----------------------------------------------------------------------------
(* Search: cosine, ranking, de-duplication (POST /api/kb/search)           *)

RECURSIVE SumProd(_, _, _)
SumProd(a, b, n) == IF n = 0 THEN 0 ELSE SumProd(a, b, n - 1) + a[n] * b[n]

\* Math.sqrt, rounded down: exact on the perfect squares the embeddings of the
\* model produce, and on every n it is 0 exactly when n is 0
ISqrt(n) == CHOOSE r \in 0..n : r * r <= n /\ (r + 1) * (r + 1) > n

\* Mutation: the product of the norms is the divisor as it is, without "|| 1".
cosineUnguarded(a, b) ==
    LET n == Min(Len(a), Len(b))
        dot == SumProd(a, b, n)
        na == SumProd(a, a, n)
        nb == SumProd(b, b, n)
        mag == ISqrt(na) * ISqrt(nb)
    IN [num |-> dot, den |-> mag]

\* function cosine(a, b): dot / ((Math.sqrt(na)*Math.sqrt(nb)) || 1), kept as
\* the fraction num/den with den > 0
cosine(a, b) ==
    LET n == Min(Len(a), Len(b))
        dot == SumProd(a, b, n)
        na == SumProd(a, a, n)
        nb == SumProd(b, b, n)
        mag == ISqrt(na) * ISqrt(nb)
    IN [num |-> dot, den |-> IF mag = 0 THEN 1 ELSE mag]

\* b.score - a.score > 0, for the comparator (a,b) => b.score - a.score
ScoreLess(x, y) == x.num * y.den < y.num * x.den

\* Mutation: an unstable sort, x goes before the elements of equal score.
RECURSIVE InsertDescUnstable(_, _)
InsertDescUnstable(sorted, x) ==
    IF sorted = <<>> THEN <<x>>
    ELSE IF ~ScoreLess(x.score, Head(sorted).score) THEN <<x>> \o sorted
    ELSE <<Head(sorted)>> \o InsertDescUnstable(Tail(sorted), x)

\* Array.prototype.sort is stable: x, the element that came last, goes
\* behind every element whose score is not lower than its own.
RECURSIVE InsertDesc(_, _)
InsertDesc(sorted, x) ==
    IF sorted = <<>> THEN <<x>>
    ELSE IF ScoreLess(Head(sorted).score, x.score) THEN <<x>> \o sorted
    ELSE <<Head(sorted)>> \o InsertDesc(Tail(sorted), x)

RECURSIVE SortDesc(_)
SortDesc(seq) ==
    IF seq = <<>> THEN <<>>
    ELSE InsertDesc(SortDesc(SubSeq(seq, 1, Len(seq) - 1)), seq[Len(seq)])

\* kbChunks.map(ch => ({...ch, score})).sort(...).slice(0, 20)
Scored(qEmb, chunks) ==
    LET withScore == [i \in 1..Len(chunks) |->
                        [fileId |-> chunks[i].fileId, id |-> chunks[i].id,
                         score |-> cosine(qEmb, chunks[i].embedding)]]
        sorted == SortDesc(withScore)
    IN SubSeq(sorted, 1, Min(ScoredLimit, Len(sorted)))

\* kbFiles.find(f => f.id === fileId): position of the first match, 0 if none
FindFile(files, fileId) ==
    IF \E j \in 1..Len(files) : files[j].id = fileId
    THEN CHOOSE j \in 1..Len(files) :
            /\ files[j].id = fileId
            /\ \A k \in 1..(j - 1) : files[k].id # fileId
    ELSE 0

\* the item a file contributes (title, jurisdiction, version, as_of and tags
\* are all read from file.meta)
Item(file) == [id |-> file.id, meta |-> file.meta]

\* Mutation: the loop does not consult the set of file ids already seen.
RECURSIVE CollectUnseen(_, _, _, _, _)
CollectUnseen(scored, i, seen, items, files) ==
    IF i > Len(scored) THEN items
    ELSE LET j == FindFile(files, scored[i].fileId)
             items2 == IF j # 0 THEN Append(items, Item(files[j])) ELSE items
         IN IF Len(items2) >= TopK THEN items2
            ELSE CollectUnseen(scored, i + 1, seen, items2, files)

\* for (const sc of scored) { if seen: continue; seen.add; find; push; break at 5 }
RECURSIVE Collect(_, _, _, _, _)
Collect(scored, i, seen, items, files) ==
    IF i > Len(scored) THEN items
    ELSE IF scored[i].fileId \in seen THEN Collect(scored, i + 1, seen, items, files)
    ELSE LET j == FindFile(files, scored[i].fileId)
             items2 == IF j # 0 THEN Append(items, Item(files[j])) ELSE items
         IN IF Len(items2) >= TopK THEN items2
            ELSE Collect(scored, i + 1, seen \cup {scored[i].fileId}, items2, files)

SearchItems(qEmb, files, chunks) ==
    Collect(Scored(qEmb, chunks), 1, {}, <<>>, files)

\* The queries of the model, q.trim() and the vector the Embedding Client
\* returns for a query
Queries == {"", " ", "rent"}
\* Mutation: the query is used as it came.
Untrimmed(q) == q
Trim(q) == IF q = " " THEN "" ELSE q
QueryEmbedding(q) == <<1, 0>>

----------------------------------------------------------------------------
(* Generations: what a build of the document root that runs alone and to   *)
(* its end leaves in memory.                                               *)

ValidDocs == SelectSeq(kbDir, IsValid)

GenFiles(b) == [i \in 1..Len(ValidDocs) |-> FileRec(ValidDocs[i], b)]

RECURSIVE GenChunksUpTo(_, _)
GenChunksUpTo(n, b) ==
    IF n = 0 THEN <<>> ELSE PushChunks(GenChunksUpTo(n - 1, b), ValidDocs[n], b)

GenChunks(b) == GenChunksUpTo(Len(ValidDocs), b)

\* files/chunks are exactly one complete generation
IsGeneration(files, chunks) ==
    \E b \in BuildIds : files = GenFiles(b) /\ chunks = GenChunks(b)

----------------------------------------------------------------------------
(* Initial state: the module has been loaded up to "await indexKB()".      *)

\* The cache file: {version, files, chunks}, or no file at all
NoCache == [present |-> FALSE, version |-> 0, files |-> <<>>, chunks |-> <<>>]
NoInfo == [source |-> None, version |-> 0, files |-> 0, chunks |-> 0]
NoSearch == [st |-> None, q |-> "", cold |-> FALSE, racing |-> FALSE]
NoReindexResp == [status |-> 0, files |-> 0, chunks |-> 0]
NoSearchResp == [status |-> 0, items |-> <<>>]
\* no request yet (None is a request without the header)
NoKey == "unset"
NoPersisted == [valid |-> FALSE, version |-> 0, files |-> 0, chunks |-> 0]
NoFrame == [pc |-> None]

\* nothing has called the rate limiter, logEvent or the chat handler yet
NoAdmin == [ip |-> None, key |-> None, at |-> 0, status |-> 0]

\* the client addresses of the model (req.ip)
IPs == {"ip1", "ip2"}

SideIdle ==
    /\ now = 0
    /\ adminRateHits = [ip \in {} |-> <<>>]
    /\ adminSeen = [ip \in IPs |-> <<>>]
    /\ adminLast = NoAdmin
    /\ history = <<>>
    /\ logged = 0
    /\ chatPc = None
    /\ doneSent = FALSE
    /\ writableEnded = FALSE
    /\ aborted = FALSE
    /\ resOut = <<>>
    /\ upstream = 0

InitOn(roots) ==
    /\ phase = "boot"
    /\ kbDir \in roots
    /\ kbFiles = <<>>
    /\ kbChunks = <<>>
    /\ builds = [b \in BuildIds |-> NoBuild]
    /\ reindexResp = [r \in ReindexIds |-> NoReindexResp]
    /\ searches = [s \in SearchIds |-> NoSearch]
    /\ searchResp = [s \in SearchIds |-> NoSearchResp]
    /\ reads = <<>>
    /\ embedCalls = [build |-> 0, search |-> 0]
    /\ buildEntries = 0
    /\ failures = 0
    /\ kbInfo = NoInfo
    /\ reindexKey = [r \in ReindexIds |-> NoKey]
    /\ persistedGen = NoPersisted
    /\ SideIdle

InitCommon == InitOn(KBRoots) /\ frame = NoFrame

Init == InitCommon /\ cacheFile = NoCache /\ cache0 = NoCache

----------------------------------------------------------------------------
(* indexKB and the continuations of its callers                            *)

\* Mutation: the payload is written without its chunks.
PersistedWithoutChunks(files, chunks) ==
    [present |-> TRUE, version |-> KB_CACHE_VERSION, files |-> files, chunks |-> <<>>]

\* persist(generation) and the descriptor of the generation just built
Persisted(files, chunks) ==
    [present |-> TRUE, version |-> KB_CACHE_VERSION, files |-> files, chunks |-> chunks]

BuiltInfo(files, chunks) ==
    [source |-> "reindex", version |-> KB_CACHE_VERSION,
     files |-> Len(files), chunks |-> Len(chunks)]

\* The start-up build has succeeded (CacheSpec): the generation is
\* persisted and described, the service is Ready.
StartupBuilt ==
    /\ cacheFile' = Persisted(kbFiles', kbChunks')
    /\ persistedGen' = [valid |-> TRUE, version |-> KB_CACHE_VERSION,
                        files |-> Len(kbFiles'), chunks |-> Len(kbChunks')]
    /\ kbInfo' = BuiltInfo(kbFiles', kbChunks')
    /\ phase' = "listening"
    /\ UNCHANGED reindexResp

\* The start-up build has failed (CacheSpec): the attempt is over and the
\* service is Uninitialized again.
StartupFailed ==
    /\ phase' = "boot"
    /\ UNCHANGED <<reindexResp, cacheFile, kbInfo, persistedGen>>

\* What runs when the promise of indexKB resolves.
\*   boot    : the module continues past line 222 down to app.listen
\*   reindex : res.json({ ok:true, files: kbFiles.length, chunks: kbChunks.length })
Resolved(b, caller) ==
    CASE caller = "boot" ->
            /\ phase' = "listening"
            /\ UNCHANGED <<reindexResp, cacheFile, kbInfo, persistedGen>>
      [] caller = "reindex" ->
            /\ reindexResp' = [reindexResp EXCEPT ![b] =
                  [status |-> 200, files |-> Len(kbFiles'), chunks |-> Len(kbChunks')]]
            /\ UNCHANGED <<phase, cacheFile, kbInfo, persistedGen>>
      [] caller = "startup" -> StartupBuilt

\* What runs when the promise of indexKB rejects.
\*   boot    : the top-level await throws, the process exits
\*   reindex : catch (e) { res.status(500).json({ error: String(e) }) }
Rejected(b, caller) ==
    CASE caller = "boot" ->
            /\ phase' = "crashed"
            /\ UNCHANGED <<reindexResp, cacheFile, kbInfo, persistedGen>>
      [] caller = "reindex" ->
            /\ reindexResp' = [reindexResp EXCEPT ![b] =
                  [status |-> 500, files |-> 0, chunks |-> 0]]
            /\ UNCHANGED <<phase, cacheFile, kbInfo, persistedGen>>
      [] caller = "startup" -> StartupFailed

\* The loop of indexKB from position "from" of the file list, with files0 and
\* chunks0 the arrays as they are now: skip the documents without metadata,
\* push the next file record and suspend in openaiEmbed, or fall off the end.
Continue(b, caller, bs, files0, chunks0, from) ==
    LET j == NextValid(kbDir, from) IN
    IF j <= Len(kbDir)
    THEN /\ kbFiles' = Append(files0, FileRec(kbDir[j], b))
         /\ kbChunks' = chunks0
         /\ builds' = [bs EXCEPT ![b].st = "await", ![b].idx = j]
         /\ embedCalls' = [embedCalls EXCEPT !.build = @ + 1]
         /\ UNCHANGED <<phase, reindexResp, cacheFile, kbInfo, persistedGen>>
    ELSE /\ kbFiles' = files0
         /\ kbChunks' = chunks0
         /\ builds' = [bs EXCEPT ![b].st = "done"]
         /\ UNCHANGED embedCalls
         /\ Resolved(b, caller)

\* kbFiles.length = 0; kbChunks.length = 0;
Cleared == <<>>

\* async function indexKB(), from its entry to its first await
IndexKB(b, caller) ==
    /\ buildEntries' = buildEntries + 1
    /\ Continue(b, caller,
                [builds EXCEPT ![b] =
                    [st |-> "await", caller |-> caller, idx |-> 0,
                     fromReady |-> ActiveBuilds = {} /\ IsGeneration(kbFiles, kbChunks),
                     prevFiles |-> kbFiles, prevChunks |-> kbChunks]],
                Cleared, Cleared, 1)

\* await indexKB();  (line 222, top level of the module)
BootStart ==
    /\ phase = "boot"
    /\ builds[0].st = None
    /\ IndexKB(0, "boot")
    /\ UNCHANGED <<kbDir, cache0, reindexKey, frame, sideVars, searches, searchResp, reads,
                   failures>>

\* openaiEmbed(parts) returns inside indexKB invocation b
EmbedReturn(b) ==
    /\ builds[b].st = "await"
    /\ Continue(b, builds[b].caller, builds, kbFiles,
                PushChunks(kbChunks, kbDir[builds[b].idx], b), builds[b].idx + 1)
    /\ UNCHANGED <<kbDir, cache0, reindexKey, frame, sideVars, searches, searchResp,
                   reads, failures, buildEntries>>

\* openaiEmbed(parts) throws inside indexKB invocation b
EmbedFail(b) ==
    /\ builds[b].st = "await"
    /\ failures < MaxFailures
    /\ failures' = failures + 1
    /\ builds' = [builds EXCEPT ![b].st = "failed"]
    /\ Rejected(b, builds[b].caller)
    /\ UNCHANGED <<kbDir, cache0, reindexKey, frame, sideVars, kbFiles, kbChunks, searches,
                   searchResp, reads,
                   embedCalls, buildEntries>>

----------------------------------------------------------------------------
(* The HTTP handlers.  They exist only once the module's top level has run *)
(* past "await indexKB()" to app.listen.                                   *)

\* Mutation: the routes are live while "await indexKB()" is still pending.
ListeningBeforeBoot == phase \in {"boot", "listening"}

Listening == phase = "listening"

Keys == {ADMIN_KEY, "wrong", None}

\* the requests issued so far, of both kinds
NumRequests ==
    Cardinality({r \in ReindexIds : builds[r].st # None \/ reindexResp[r] # NoReindexResp})
    + Cardinality({s \in SearchIds : searches[s].st # None})

\* Mutation: the header is not compared with the admin key.
KeyAcceptedAny(key) == TRUE

\* if (key !== ADMIN_KEY) return res.status(403)
KeyAccepted(key) == key = ADMIN_KEY

\* app.post('/api/kb/index', ...): requests are numbered in arrival order
ReindexRequest(r) ==
    /\ Listening
    /\ NumRequests < MaxRequests
    /\ builds[r].st = None /\ reindexResp[r] = NoReindexResp
    /\ \A r0 \in ReindexIds : r0 < r => (builds[r0].st # None \/ reindexResp[r0] # NoReindexResp)
    /\ \E key \in Keys :
         /\ reindexKey' = [reindexKey EXCEPT ![r] = key]
         /\ IF KeyAccepted(key)
            THEN IndexKB(r, "reindex")
            ELSE /\ reindexResp' = [reindexResp EXCEPT ![r] =
                        [status |-> 403, files |-> 0, chunks |-> 0]]
                 /\ UNCHANGED <<phase, kbFiles, kbChunks, builds, embedCalls,
                                buildEntries, cacheFile, kbInfo, persistedGen>>
    /\ UNCHANGED <<kbDir, cache0, frame, sideVars, searches, searchResp, reads, failures>>

\* A client issues its search while the module is still in "await indexKB()":
\* nothing serves it before the server listens.
SearchArrive(s) ==
    /\ phase = "boot"
    /\ NumRequests < MaxRequests
    /\ searches[s].st = None
    /\ \A s0 \in SearchIds : s0 < s => searches[s0].st # None
    /\ \E q \in Queries :
         searches' = [searches EXCEPT ![s] =
             [st |-> "arrived", q |-> q, cold |-> TRUE, racing |-> FALSE]]
    /\ UNCHANGED <<phase, kbDir, cache0, reindexKey, frame, sideVars, kbFiles,
                   kbChunks, builds, reindexResp, searchResp,
                   reads, embedCalls, buildEntries, failures, cacheFile, kbInfo, persistedGen>>

\* const q = String(req.body?.q || '').trim();
\* if (!q) return res.json({ items: [] });
\* const [qEmb] = await openaiEmbed([q]);
HandleSearch(s, q, cold) ==
    IF Trim(q) = ""
    THEN /\ searches' = [searches EXCEPT ![s] =
                [st |-> "done", q |-> q, cold |-> cold, racing |-> FALSE]]
         /\ searchResp' = [searchResp EXCEPT ![s] = [status |-> 200, items |-> <<>>]]
         /\ UNCHANGED embedCalls
    ELSE /\ searches' = [searches EXCEPT ![s] =
                [st |-> "await", q |-> q, cold |-> cold, racing |-> (ActiveBuilds # {})]]
         /\ embedCalls' = [embedCalls EXCEPT !.search = @ + 1]
         /\ UNCHANGED searchResp

\* app.post('/api/kb/search', ...) up to "await openaiEmbed([q])", for a
\* request that was waiting for the server or one that arrives now
SearchStart(s) ==
    /\ Listening
    /\ \/ /\ searches[s].st = "arrived"
          /\ HandleSearch(s, searches[s].q, TRUE)
       \/ /\ searches[s].st = None
          /\ NumRequests < MaxRequests
          /\ \A s0 \in SearchIds : s0 < s => searches[s0].st # None
          /\ \E q \in Queries : HandleSearch(s, q, FALSE)
    /\ UNCHANGED <<phase, kbDir, cache0, reindexKey, frame, sideVars, kbFiles,
                   kbChunks, builds, reindexResp, reads,
                   buildEntries, failures, cacheFile, kbInfo, persistedGen>>

\* the rest of the search handler, after openaiEmbed([q]) has returned
SearchEmbedReturn(s) ==
    /\ searches[s].st = "await"
    /\ LET items == SearchItems(QueryEmbedding(Trim(searches[s].q)), kbFiles, kbChunks) IN
         /\ searchResp' = [searchResp EXCEPT ![s] = [status |-> 200, items |-> items]]
         /\ reads' = Append(reads,
               [s |-> s, files |-> kbFiles, chunks |-> kbChunks,
                building |-> ActiveBuilds # {},
                racing |-> searches[s].racing \/ ActiveBuilds # {}])
    /\ searches' = [searches EXCEPT ![s].st = "done"]
    /\ UNCHANGED <<phase, kbDir, cache0, reindexKey, frame, sideVars, kbFiles, kbChunks,
                   builds, reindexResp,
                   embedCalls, buildEntries, failures, cacheFile, kbInfo, persistedGen>>

\* openaiEmbed([q]) throws: catch (e) { res.status(500) }
SearchEmbedFail(s) ==
    /\ searches[s].st = "await"
    /\ failures < MaxFailures
    /\ failures' = failures + 1
    /\ searches' = [searches EXCEPT ![s].st = "done"]
    /\ searchResp' = [searchResp EXCEPT ![s] = [status |-> 500, items |-> <<>>]]
    /\ UNCHANGED <<phase, kbDir, cache0, reindexKey, frame, sideVars, kbFiles,
                   kbChunks, builds, reindexResp, reads,
                   embedCalls, buildEntries, cacheFile, kbInfo, persistedGen>>

----------------------------------------------------------------------------
(* Start-up with the durable cache (Cache Store and Index Service of the   *)
(* specification; observed through getKbState() in kb.spec.js).            *)

CachedFile == [id |-> "demo", file |-> <<"tmp", "demo">>, meta |-> "metaDemo", build |-> -1]
CachedChunk ==
    [id |-> <<"demo", 0>>, fileId |-> "demo",
     text |-> [doc |-> <<"tmp", "demo">>, from |-> 0, to |-> 5],
     meta |-> "metaDemo", embedding |-> <<1, 0>>, build |-> -1]

\* the cache files the service may find when it starts
CacheFiles ==
    { NoCache,
      [present |-> TRUE, version |-> KB_CACHE_VERSION - 1, files |-> <<>>, chunks |-> <<>>],
      [present |-> TRUE, version |-> KB_CACHE_VERSION - 1,
       files |-> <<CachedFile>>, chunks |-> <<CachedChunk>>],
      [present |-> TRUE, version |-> KB_CACHE_VERSION, files |-> <<>>, chunks |-> <<>>],
      [present |-> TRUE, version |-> KB_CACHE_VERSION,
       files |-> <<CachedFile>>, chunks |-> <<CachedChunk>>] }

InitCache == InitCommon /\ cacheFile \in CacheFiles /\ cache0 = cacheFile

\* Mutation: the payload on disk is never accepted.
CacheNeverUsable(c) == FALSE

\* Mutation: the payload on disk is accepted whatever its version stamp.
CacheUsableAnyVersion(c) == c.present

\* hydrate(): a payload is accepted only with the expected version stamp
CacheUsable(c) == c.present /\ c.version = KB_CACHE_VERSION

HydratedInfo(c) ==
    [source |-> "cache", version |-> c.version,
     files |-> Len(c.files), chunks |-> Len(c.chunks)]

\* First access while Uninitialized: hydrate, or build and persist.  After a
\* failed attempt the service is Uninitialized again and the next access
\* starts a fresh attempt.
StartupHydrate ==
    /\ phase = "boot"
    /\ builds[0].st \in {None, "failed"}
    /\ IF CacheUsable(cacheFile)
       THEN /\ kbFiles' = cacheFile.files
            /\ kbChunks' = cacheFile.chunks
            /\ kbInfo' = HydratedInfo(cacheFile)
            /\ phase' = "listening"
            /\ UNCHANGED <<builds, reindexResp, embedCalls, buildEntries, cacheFile,
                         persistedGen>>
       ELSE IndexKB(0, "startup")
    /\ UNCHANGED <<kbDir, cache0, reindexKey, frame, sideVars, searches, searchResp, reads,
                   failures>>

NextCache ==
    \/ StartupHydrate
    \/ \E b \in BuildIds : EmbedReturn(b)
    \/ \E b \in BuildIds : EmbedFail(b)
    \/ \E s \in SearchIds : SearchArrive(s)
    \/ \E s \in SearchIds : SearchStart(s)
    \/ \E s \in SearchIds : SearchEmbedReturn(s)
    \/ \E s \in SearchIds : SearchEmbedFail(s)

CacheSpec == InitCache /\ [][NextCache]_vars

\* The process ends and the service is started again on the same document
\* root: memory is lost, the cache file stays.
Restart ==
    /\ phase' = "boot"
    /\ kbFiles' = <<>>
    /\ kbChunks' = <<>>
    /\ builds' = [b \in BuildIds |-> NoBuild]
    /\ reindexResp' = [r \in ReindexIds |-> NoReindexResp]
    /\ searches' = [s \in SearchIds |-> NoSearch]
    /\ searchResp' = [s \in SearchIds |-> NoSearchResp]
    /\ reads' = <<>>
    /\ embedCalls' = [build |-> 0, search |-> 0]
    /\ buildEntries' = 0
    /\ kbInfo' = NoInfo
    /\ reindexKey' = [r \in ReindexIds |-> NoKey]
    /\ cache0' = cacheFile
    /\ UNCHANGED <<kbDir, failures, cacheFile, persistedGen, frame, sideVars>>

NextRestart ==
    \/ NextCache
    \/ Restart

RestartSpec == InitCache /\ [][NextRestart]_vars

Next ==
    \/ BootStart
    \/ \E b \in BuildIds : EmbedReturn(b)
    \/ \E b \in BuildIds : EmbedFail(b)
    \/ \E r \in ReindexIds : ReindexRequest(r)
    \/ \E s \in SearchIds : SearchArrive(s)
    \/ \E s \in SearchIds : SearchStart(s)
    \/ \E s \in SearchIds : SearchEmbedReturn(s)
    \/ \E s \in SearchIds : SearchEmbedFail(s)

Spec == Init /\ [][Next]_vars

----------------------------------------------------------------------------
(* function chunk(text, size, overlap) taken alone, one action per         *)
(* iteration of its loop.  The text is its length; a window is the pair of *)
(* offsets that text.slice returns.                                        *)

\* the calls of the model: any text up to MaxLen characters, any size from
\* 1 and any overlap from 0 up to MaxSize (overlap >= size included)
ChunkCalls ==
    { [pc |-> "loop", len |-> l, size |-> sz, overlap |-> ov, i |-> 0, out |-> <<>>] :
         l \in 0..MaxLen, sz \in 1..MaxSize, ov \in 0..MaxSize }

\* the model follows a call for this many windows at most
MaxChunks == MaxLen + 2

\* String.prototype.slice(a, b) on a text of len characters: a negative
\* offset counts from the end, offsets are clamped to the text
SliceOffset(len, a) == IF a < 0 THEN (IF len + a < 0 THEN 0 ELSE len + a) ELSE Min(a, len)

Slice(len, a, b) ==
    LET from == SliceOffset(len, a)
        to == SliceOffset(len, b)
    IN [from |-> from, to |-> IF to < from THEN from ELSE to]

\* Mutation: the loop advances by the window size, ignoring the overlap.
ChunkAdvanceBySize(i, size, overlap) == i + size

\* i += (size - overlap);
ChunkAdvance(i, size, overlap) == i + (size - overlap)

\* while (i < text.length) { out.push(text.slice(i, i+size)); i += (size - overlap); }
ChunkStep ==
    /\ frame.pc = "loop"
    /\ frame.i < frame.len
    /\ Len(frame.out) < MaxChunks
    /\ frame' = [frame EXCEPT
            !.out = Append(@, Slice(frame.len, frame.i, frame.i + frame.size)),
            !.i = ChunkAdvance(frame.i, frame.size, frame.overlap)]
    /\ UNCHANGED <<kbVars, sideVars>>

\* return out;
ChunkReturn ==
    /\ frame.pc = "loop"
    /\ ~(frame.i < frame.len)
    /\ frame' = [frame EXCEPT !.pc = "done"]
    /\ UNCHANGED <<kbVars, sideVars>>

InitChunk ==
    /\ InitOn({<<>>})
    /\ cacheFile = NoCache
    /\ cache0 = NoCache
    /\ frame \in ChunkCalls

NextChunk ==
    \/ ChunkStep
    \/ ChunkReturn

\* the loop is straight-line code: an iteration that can run does run
ChunkSpec == InitChunk /\ [][NextChunk]_vars /\ WF_vars(NextChunk)

----------------------------------------------------------------------------
(* function cosine(a, b) taken alone                                       *)

\* vectors have up to MaxDim coordinates, each in -MaxCoord..MaxCoord
MaxDim == 2
MaxCoord == 2

Vectors(n) == [1..n -> (0 - MaxCoord)..MaxCoord]

\* the calls of the model: any two vectors of the same length
CosineCalls ==
    { [pc |-> "call", a |-> a, b |-> b] :
         <<a, b>> \in UNION { Vectors(n) \X Vectors(n) : n \in 0..MaxDim } }

\* return dot / ((Math.sqrt(na)*Math.sqrt(nb)) || 1);
CosineReturn ==
    /\ frame.pc = "call"
    /\ frame' = [pc |-> "done", a |-> frame.a, b |-> frame.b,
                 result |-> cosine(frame.a, frame.b)]
    /\ UNCHANGED <<kbVars, sideVars>>

InitCosine ==
    /\ InitOn({<<>>})
    /\ cacheFile = NoCache
    /\ cache0 = NoCache
    /\ frame \in CosineCalls

NextCosine == CosineReturn

CosineSpec == InitCosine /\ [][NextCosine]_vars

----------------------------------------------------------------------------
(* The admin router: adminRateLimiter, then ensureAdminKey, and the timer   *)
(* that cleans adminRateHits.                                              *)

adminRateLimitWindowMs == 60 * 1000
adminRateLimitMax == 10

\* the model handles this many admin requests and lets this many steps of
\* time pass; a step of time is half the window
MaxAdminRequests == 12
MaxTicks == 3
TickMs == adminRateLimitWindowMs \div 2

\* the x-admin-key headers of the model
AdminKeys == {ADMIN_KEY, "wrong"}

\* Mutation: a hit exactly one window old still counts.
RecentHitsInclusive(hits, windowStart) ==
    SelectSeq(hits, LAMBDA ts : ts >= windowStart)

\* hits.filter(ts => ts > windowStart)
RecentHits(hits, windowStart) == SelectSeq(hits, LAMBDA ts : ts > windowStart)

\* adminRateHits.get(ip) || []
HitsOf(ip) == IF ip \in DOMAIN adminRateHits THEN adminRateHits[ip] ELSE <<>>

\* Map.prototype.set(ip, hits)
MapSet(map, ip, hits) ==
    [i \in DOMAIN map \cup {ip} |-> IF i = ip THEN hits ELSE map[i]]

\* ensureAdminKey, then the route
KeyStatus(key) == IF key # ADMIN_KEY THEN 403 ELSE 200

NumAdminRequests == Len(adminSeen["ip1"]) + Len(adminSeen["ip2"])

\* one request to the admin router: adminRateLimiter, and through next()
\* ensureAdminKey and the route
AdminRequest(ip, key) ==
    /\ NumAdminRequests < MaxAdminRequests
    /\ LET windowStart == now - adminRateLimitWindowMs
           recent == Append(RecentHits(HitsOf(ip), windowStart), now)
       IN /\ adminRateHits' = MapSet(adminRateHits, ip, recent)
          /\ adminLast' = [ip |-> ip, key |-> key, at |-> now,
                           status |-> IF Len(recent) > adminRateLimitMax
                                      THEN 429 ELSE KeyStatus(key)]
    /\ adminSeen' = [adminSeen EXCEPT ![ip] = Append(@, now)]
    /\ UNCHANGED <<kbVars, frame, now, logVars, chatVars>>

\* time passes
Tick ==
    /\ now < MaxTicks * TickMs
    /\ now' = now + TickMs
    /\ UNCHANGED <<kbVars, frame, adminRateHits, adminSeen, adminLast, logVars, chatVars>>

\* the setInterval callback: it runs when a window or more has passed
AdminCleanup ==
    /\ now >= adminRateLimitWindowMs
    /\ LET kept(ip) == SelectSeq(adminRateHits[ip],
                                 LAMBDA ts : now - ts <= adminRateLimitWindowMs)
           live == {ip \in DOMAIN adminRateHits : Len(kept(ip)) > 0}
       IN adminRateHits' = [ip \in live |-> kept(ip)]
    /\ UNCHANGED <<kbVars, frame, now, adminSeen, adminLast, logVars, chatVars>>

InitRate ==
    /\ InitOn({<<>>})
    /\ cacheFile = NoCache
    /\ cache0 = NoCache
    /\ frame = NoFrame

NextRate ==
    \/ \E ip \in IPs, key \in AdminKeys : AdminRequest(ip, key)
    \/ Tick
    \/ AdminCleanup

RateSpec == InitRate /\ [][NextRate]_vars

----------------------------------------------------------------------------
(* function logEvent(mobile, type, summary).  An entry is the ordinal of   *)
(* the call that logged it; history.json is missing before the first call. *)

\* // Keep last 1000 entries
HistoryLimit == 1000

\* the model follows this many calls of logEvent
MaxEvents == 1003

\* Mutation: the entries beyond the limit are cut from the end.
SpliceTail(seq, deleteCount) == SubSeq(seq, 1, Len(seq) - deleteCount)

\* Array.prototype.splice(0, deleteCount): what is left in the array
Splice0(seq, deleteCount) == SubSeq(seq, deleteCount + 1, Len(seq))

\* history.push(entry); if (history.length > 1000) history.splice(0, ...)
PushEvent(h, entry) ==
    LET pushed == Append(h, entry)
    IN IF Len(pushed) > HistoryLimit
       THEN Splice0(pushed, Len(pushed) - HistoryLimit)
       ELSE pushed

\* readJSON, push, splice when over the limit, writeJSON
LogEvent ==
    /\ logged < MaxEvents
    /\ logged' = logged + 1
    /\ history' = PushEvent(history, logged + 1)
    /\ UNCHANGED <<kbVars, frame, rateVars, chatVars>>

InitLog ==
    /\ InitOn({<<>>})
    /\ cacheFile = NoCache
    /\ cache0 = NoCache
    /\ frame = NoFrame

NextLog == LogEvent

LogSpec == InitLog /\ [][NextLog]_vars

----------------------------------------------------------------------------
(* GET /api/chat: the streaming handler, one action per slice between two  *)
(* awaits.  The response is the record r of what was written (out),        *)
(* doneSent and res.writableEnded (ended).  A client disconnect is the     *)
(* 'close' event of req, which aborts the controller; fetch then rejects   *)
(* whichever of its promises the handler is waiting for.                   *)

\* the model follows this many reads of the upstream body, each delivering
\* up to MaxChunkEvents complete events
MaxReads == 3
MaxChunkEvents == 2

\* what one upstream event is to the handler: a content delta, a line that
\* is not JSON or has no delta, or [DONE]
UpstreamEvents == {"token", "malformed", "DONE"}

UpstreamChunks == UNION { [1..n -> UpstreamEvents] : n \in 0..MaxChunkEvents }

Response == [out |-> resOut, doneSent |-> doneSent, ended |-> writableEnded]

\* res.write(...): the entry records whether the response had been ended and
\* whether the client had disconnected when it was written
ResWrite(r, ev) ==
    [r EXCEPT !.out = Append(@, [ev |-> ev, ended |-> r.ended, closed |-> aborted])]

\* const sendDone = () => { if (doneSent || res.writableEnded) return; ... }
sendDone(r) ==
    IF r.doneSent \/ r.ended
    THEN r
    ELSE [ResWrite([r EXCEPT !.doneSent = TRUE], "done") EXCEPT !.ended = TRUE]

\* Mutation: the catch block does not look at controller.signal.aborted.
ChatCatchAlways(r) ==
    IF ~r.ended THEN sendDone(ResWrite(r, "server-error")) ELSE r

\* catch (err) { if (controller.signal.aborted) return;
\*               if (!res.writableEnded) { res.write(server-error); sendDone(); } ... }
ChatCatch(r) ==
    IF aborted THEN r
    ELSE IF ~r.ended THEN sendDone(ResWrite(r, "server-error")) ELSE r

\* the events of one chunk in order: a token is written, [DONE] ends the
\* handling (seen), the rest is ignored
RECURSIVE ChatEvents(_, _)
ChatEvents(r, events) ==
    IF events = <<>> THEN [r |-> r, seen |-> FALSE]
    ELSE IF Head(events) = "DONE" THEN [r |-> r, seen |-> TRUE]
    ELSE IF Head(events) = "token" THEN ChatEvents(ResWrite(r, "token"), Tail(events))
    ELSE ChatEvents(r, Tail(events))

\* the handler returns or throws out of its catch block; r is the response
\* it leaves, logs the number of logEvent calls that wrote history.json
ChatReturn(r, logs) ==
    /\ chatPc' = "returned"
    /\ resOut' = r.out
    /\ doneSent' = r.doneSent
    /\ writableEnded' = r.ended
    /\ logged' = logged + logs
    /\ history' = IF logs = 0 THEN history ELSE PushEvent(history, logged + 1)

\* sendDone(); logEvent(...): a logEvent that throws is caught by the catch
\* block, whose own logEvent throws as well
ChatDone(r, logOk) ==
    IF logOk THEN ChatReturn(sendDone(r), 1)
    ELSE ChatReturn(ChatCatch(sendDone(r)), 0)

\* an error thrown inside the try block
ChatThrow(r, logOk) ==
    ChatReturn(ChatCatch(r), IF logOk /\ ~aborted THEN 1 ELSE 0)

\* the handler up to await fetch(...); a bad payload is answered 400
ChatRequest(valid) ==
    /\ chatPc = None
    /\ IF valid
       THEN /\ chatPc' = "fetch"
            /\ UNCHANGED <<resOut, writableEnded>>
       ELSE /\ chatPc' = "rejected"
            /\ resOut' = <<[ev |-> "400", ended |-> FALSE, closed |-> FALSE]>>
            /\ writableEnded' = TRUE
    /\ UNCHANGED <<kbVars, frame, rateVars, logVars, doneSent, aborted, upstream>>

\* req.on('close', () => controller.abort()), also after the handler returned
ClientClose ==
    /\ chatPc \in {"fetch", "text", "read", "returned"}
    /\ ~aborted
    /\ aborted' = TRUE
    /\ UNCHANGED <<kbVars, frame, rateVars, logVars, chatPc, doneSent, writableEnded,
                   resOut, upstream>>

\* the awaited promise rejects because the controller was aborted
AbortReject ==
    /\ chatPc \in {"fetch", "text", "read"}
    /\ aborted
    /\ ChatThrow(Response, TRUE)
    /\ UNCHANGED <<kbVars, frame, rateVars, aborted, upstream>>

\* await fetch(...) resolves: r.ok with a body, r.ok without one, or not r.ok
FetchResolve(kind, logOk) ==
    /\ chatPc = "fetch"
    /\ ~aborted
    /\ IF kind = "nobody"
       THEN ChatThrow(Response, logOk)
       ELSE /\ chatPc' = (IF kind = "ok" THEN "read" ELSE "text")
            /\ UNCHANGED <<resOut, doneSent, writableEnded, logVars>>
    /\ UNCHANGED <<kbVars, frame, rateVars, aborted, upstream>>

\* await fetch(...) rejects, or await r.text() settles and the error is thrown
ChatFail(logOk) ==
    /\ chatPc \in {"fetch", "text"}
    /\ ~aborted
    /\ ChatThrow(Response, logOk)
    /\ UNCHANGED <<kbVars, frame, rateVars, aborted, upstream>>

\* await reader.read() resolves with a value: the inner while loop
ReadValue(events, logOk) ==
    /\ chatPc = "read"
    /\ ~aborted
    /\ upstream < MaxReads
    /\ upstream' = upstream + 1
    /\ LET after == ChatEvents(Response, events)
       IN IF after.seen
          THEN ChatDone(after.r, logOk)
          ELSE /\ resOut' = after.r.out
               /\ UNCHANGED <<chatPc, doneSent, writableEnded, logVars>>
    /\ UNCHANGED <<kbVars, frame, rateVars, aborted>>

\* await reader.read() resolves with done: break, sendDone(), logEvent(...)
ReadDone(logOk) ==
    /\ chatPc = "read"
    /\ ~aborted
    /\ ChatDone(Response, logOk)
    /\ UNCHANGED <<kbVars, frame, rateVars, aborted, upstream>>

\* await reader.read() rejects: the upstream stream failed
ReadError(logOk) ==
    /\ chatPc = "read"
    /\ ~aborted
    /\ ChatThrow(Response, logOk)
    /\ UNCHANGED <<kbVars, frame, rateVars, aborted, upstream>>

InitChat ==
    /\ InitOn({<<>>})
    /\ cacheFile = NoCache
    /\ cache0 = NoCache
    /\ frame = NoFrame

NextChat ==
    \/ \E valid \in BOOLEAN : ChatRequest(valid)
    \/ ClientClose
    \/ AbortReject
    \/ \E kind \in {"ok", "notok", "nobody"}, logOk \in BOOLEAN : FetchResolve(kind, logOk)
    \/ \E logOk \in BOOLEAN : ChatFail(logOk)
    \/ \E events \in UpstreamChunks, logOk \in BOOLEAN : ReadValue(events, logOk)
    \/ \E logOk \in BOOLEAN : ReadDone(logOk)
    \/ \E logOk \in BOOLEAN : ReadError(logOk)

ChatSpec == InitChat /\ [][NextChat]_vars

\* the same server on a document root of more than ScoredLimit windows
InitBig == InitOn(BigRoots) /\ frame = NoFrame /\ cacheFile = NoCache /\ cache0 = NoCache

BigSpec == InitBig /\ [][Next]_vars

\* the same server on the document roots EdgeRoots
InitEdge == InitOn(EdgeRoots) /\ frame = NoFrame /\ cacheFile = NoCache /\ cache0 = NoCache

EdgeSpec == InitEdge /\ [][Next]_vars

----------------------------------------------------------------------------
(* Properties                                                              *)

\* the number of documents under the document root that carry metadata
NumValidDocuments == Cardinality({i \in 1..Len(kbDir) : kbDir[i].meta # NullMeta})

FileIds(files) == [i \in 1..Len(files) |-> files[i].id]
ChunkIds(chunks) == [i \in 1..Len(chunks) |-> chunks[i].id]
ChunkBuilds(chunks) == {chunks[i].build : i \in 1..Len(chunks)}

\* C1: while a rebuild is in progress, every search reads a complete
\* generation (the previous or the new one), never an empty or partly
\* populated files/chunks collection.
C1_ReadersSeeWholeGeneration ==
    \A i \in 1..Len(reads) :
        reads[i].building => IsGeneration(reads[i].files, reads[i].chunks)

\* C2: at every moment at most one execution of the build is active; a
\* reindex request arriving during a build starts no second one.
C2_SingleFlightRebuild == Cardinality(ActiveBuilds) <= 1

\* C3: however many callers make their first access while the index is
\* uninitialized, exactly one build runs for the cold start, no caller is
\* served before that attempt has completed, and the Embedding Client is
\* invoked for that one build only.
C3_OneColdStartBuild ==
    /\ phase = "boot" =>
          /\ buildEntries <= 1
          /\ \A s \in SearchIds : searches[s].st \in {None, "arrived"}
    /\ \A s \in SearchIds :
          (searches[s].cold /\ searches[s].st \in {"await", "done"})
             => (builds[0].st = "done" /\ buildEntries >= 1)
    /\ (\A r \in ReindexIds : builds[r].st = None) =>
          /\ buildEntries <= 1
          /\ embedCalls.build <= NumValidDocuments

\* C3 witness: two callers arrived during the cold start, both were served
\* from the populated index, and indexKB was entered once.
C3_Witness ==
    /\ \A s \in {1, 2} :
          /\ searches[s].cold
          /\ searches[s].st = "done"
          /\ searchResp[s].status = 200
          /\ searchResp[s].items # <<>>
    /\ buildEntries = 1
    /\ embedCalls.build = NumValidDocuments

\* C4: when the Embedding Client fails during a rebuild started from a Ready
\* index, the failure is reported to the caller and memory holds exactly the
\* files and chunks it held before the rebuild began.
C4_FailedRebuildKeepsPrevious ==
    [][\A r \in ReindexIds :
          (builds[r].st = "await" /\ builds[r].fromReady /\ builds'[r].st = "failed")
             => /\ reindexResp'[r].status = 500
                /\ FileIds(kbFiles') = FileIds(builds[r].prevFiles)
                /\ ChunkIds(kbChunks') = ChunkIds(builds[r].prevChunks)]_vars

\* C5: every held chunk's fileId is the id of a file record held at the
\* same moment.
C5_NoDanglingChunk ==
    \A i \in 1..Len(kbChunks) :
        \E j \in 1..Len(kbFiles) : kbFiles[j].id = kbChunks[i].fileId

\* C6: no two held chunk records have the same id.
C6_UniqueChunkIds ==
    \A i, j \in 1..Len(kbChunks) : i # j => kbChunks[i].id # kbChunks[j].id

\* C7: no read observes chunks of two different builds, and the builds that
\* successive reads observe never go backwards.
C7_MonotoneUnmixedReads ==
    /\ \A i \in 1..Len(reads) : Cardinality(ChunkBuilds(reads[i].chunks)) <= 1
    /\ \A i, j \in 1..Len(reads) :
          i < j => \A bi \in ChunkBuilds(reads[i].chunks) :
                     \A bj \in ChunkBuilds(reads[j].chunks) : bi <= bj

\* C8: a search with a non-empty query that races a build never gets a
\* successful empty item list out of an index that is not populated.
C8_NoSilentEmptyResult ==
    \A i \in 1..Len(reads) :
        (reads[i].racing /\ searchResp[reads[i].s].status = 200)
           => ~(/\ searchResp[reads[i].s].items = <<>>
                /\ ~IsGeneration(reads[i].files, reads[i].chunks))

StaleCacheAtStartup == cache0.present /\ cache0.version # KB_CACHE_VERSION
FreshCacheAtStartup == cache0.present /\ cache0.version = KB_CACHE_VERSION

C13_BadKeyRejectedNoEffect ==
    [][\A r \in ReindexIds :
          (reindexKey[r] = NoKey /\ reindexKey'[r] \notin {NoKey, ADMIN_KEY}) =>
              /\ reindexResp'[r].status = 403
              /\ builds'[r].st = None
              /\ UNCHANGED <<kbFiles, kbChunks, builds, embedCalls, buildEntries,
                             cacheFile, kbInfo, phase>>]_vars

\* C13 witness: a request with a wrong key and one without the header were
\* both answered 403 while the index held the start-up generation.
C13_Witness ==
    /\ \E r \in ReindexIds : reindexKey[r] = "wrong" /\ reindexResp[r].status = 403
    /\ \E r \in ReindexIds : reindexKey[r] = None /\ reindexResp[r].status = 403
    /\ kbFiles = GenFiles(0)
    /\ kbChunks = GenChunks(0)
    /\ buildEntries = 1

\* C14: the step that answers an authorized re-index request with success
\* leaves in memory exactly the generation that this request's build
\* produced, and the file and chunk counts of the answer are the counts of
\* that generation.
C14_ReindexInstallsAndReports ==
    [][\A r \in ReindexIds :
          (reindexResp[r] = NoReindexResp /\ reindexResp'[r].status = 200) =>
              /\ kbFiles' = GenFiles(r)
              /\ kbChunks' = GenChunks(r)
              /\ reindexResp'[r].files = Len(GenFiles(r))
              /\ reindexResp'[r].chunks = Len(GenChunks(r))]_vars

\* C15: whatever the index holds and whatever the query, the item list of a
\* search answer never has two entries with the same file id.
C15_ItemsHaveDistinctFiles ==
    \A s \in SearchIds :
        LET items == searchResp[s].items IN
        \A i, j \in 1..Len(items) : i # j => items[i].id # items[j].id

\* C15 witness: a search read an index holding several chunks of one file
\* (and, the builds overlapping, more file records than documents) and
\* answered with two items.
C15_Witness ==
    \E i \in 1..Len(reads) :
        /\ Len(reads[i].chunks) > 2
        /\ Len(reads[i].files) > Len(kbDir)
        /\ Len(searchResp[reads[i].s].items) = 2

\* the files that have at least one chunk, and the score of a file's
\* highest-scoring chunk
FilesWithChunks(chunks) == {chunks[k].fileId : k \in 1..Len(chunks)}

BestScore(f, qEmb, chunks) ==
    LET scores == {cosine(qEmb, chunks[k].embedding) :
                      k \in {k \in 1..Len(chunks) : chunks[k].fileId = f}}
    IN CHOOSE sc \in scores : \A other \in scores : ~ScoreLess(sc, other)

RankedTopK(items, qEmb, chunks) ==
    LET F == FilesWithChunks(chunks)
        ids == {items[i].id : i \in 1..Len(items)}
    IN /\ Len(items) = Min(TopK, Cardinality(F))
       /\ ids \subseteq F
       /\ Cardinality(ids) = Len(items)
       /\ \A i, j \in 1..Len(items) :
             i < j => ~ScoreLess(BestScore(items[i].id, qEmb, chunks),
                                 BestScore(items[j].id, qEmb, chunks))
       /\ \A f \in F \ ids : \A i \in 1..Len(items) :
             ~ScoreLess(BestScore(items[i].id, qEmb, chunks), BestScore(f, qEmb, chunks))

\* C16: a search on a complete generation returns exactly min(TopK, D)
\* items, D the number of distinct files with at least one chunk: those
\* files in descending order of their best chunk's score, none left out
\* because chunks of other files score higher.
C16_TopKDistinctFilesByBestChunk ==
    \A i \in 1..Len(reads) :
        (~reads[i].racing /\ IsGeneration(reads[i].files, reads[i].chunks)) =>
            RankedTopK(searchResp[reads[i].s].items,
                       QueryEmbedding(Trim(searches[reads[i].s].q)), reads[i].chunks)

\* the search requests the handler has taken up, and those among them whose
\* query is empty or white space only
Handled == {s \in SearchIds : searches[s].st \in {"await", "done"}}
Blank == {s \in Handled : searches[s].q \in {"", " "}}

\* C17: a search whose query is empty or only white space is answered with
\* an empty item list and makes no Embedding Client call, whatever the index
\* holds: every such search is answered at once with no items, and the
\* searches' embedding calls are exactly one per non-blank search.
C17_BlankQueryNoEmbedding ==
    /\ \A s \in Blank :
          /\ searches[s].st = "done"
          /\ searchResp[s] = [status |-> 200, items |-> <<>>]
    /\ embedCalls.search = Cardinality(Handled \ Blank)

\* C17 witness: a white-space query and an empty query were answered while a
\* rebuild was running on a non-empty index, and no search has called the
\* Embedding Client.
C17_Witness ==
    /\ \E s \in Blank : searches[s].q = " "
    /\ \E s \in Blank : searches[s].q = ""
    /\ ActiveBuilds # {}
    /\ kbChunks # <<>>
    /\ embedCalls.search = 0

\* C18: for 0 <= overlap < size, chunk terminates; the k-th window starts at
\* (k-1)*(size-overlap), so the starts begin at 0 and increase strictly by
\* size-overlap; every start is below the text length; and an empty text
\* gives no window.
C18_ChunkWindows ==
    /\ [](frame.overlap < frame.size =>
            /\ \A k \in 1..Len(frame.out) :
                  /\ frame.out[k].from = (k - 1) * (frame.size - frame.overlap)
                  /\ frame.out[k].from < frame.len
                  /\ k > 1 => frame.out[k - 1].from < frame.out[k].from
            /\ frame.len = 0 => frame.out = <<>>
            /\ frame.pc = "done" =>
                  /\ frame.out = chunk(frame.len, frame.size, frame.overlap)
                  /\ (frame.len > 0 => frame.out # <<>>))
    /\ (frame.overlap < frame.size) ~> (frame.pc = "done")

\* C18 witness: a call with a positive overlap has returned four windows.
C18_Witness ==
    /\ frame.pc = "done"
    /\ frame.overlap > 0
    /\ frame.overlap < frame.size
    /\ Len(frame.out) = 4

HasLeadingJSONObject(raw) ==
    LET s == TrimSeq(raw) IN
    /\ s # <<>>
    /\ s[1] = "{"
    /\ JSONObjectEnd(s, 1, 0, FALSE) > 0

WithLeadingJSON == SelectSeq(kbDir, LAMBDA d : HasLeadingJSONObject(d.raw))

\* C20: a build skips each document that has no parseable leading JSON
\* object and goes on; every other document is processed, so that after a
\* build that ran alone to its end the file records are those of exactly
\* the documents with a leading JSON object, each with its chunks; and no
\* file record ever has null metadata.
C20_UnparseableSkippedOthersIndexed ==
    /\ \A i \in 1..Len(kbFiles) : kbFiles[i].meta # NullMeta
    /\ (phase = "listening" /\ buildEntries = 1) =>
          /\ FileIds(kbFiles) = [i \in 1..Len(WithLeadingJSON) |->
                                    Basename(WithLeadingJSON[i].fp)]
          /\ FilesWithChunks(kbChunks) = {kbFiles[i].id : i \in 1..Len(kbFiles)}

\* the search answers that a result cache would hold for query q: those of
\* the searches answered with success whose normalized query is q
AnsweredFor(q) ==
    {s0 \in SearchIds : /\ searches[s0].st = "done"
                        /\ searchResp[s0].status = 200
                        /\ searches[s0].q \notin {"", " "}
                        /\ searches[s0].q = q}

\* C21: a search whose normalized query was answered a moment ago (the
\* entry is younger than the TTL) is answered at once with the cached
\* items and without an Embedding Client call.
C21_CachedQueryServedWithoutEmbedding ==
    [][\A s \in SearchIds :
          (/\ searches[s].st \in {None, "arrived"}
           /\ searches'[s].st \in {"await", "done"}
           /\ AnsweredFor(searches'[s].q) # {}) =>
              /\ embedCalls'.search = embedCalls.search
              /\ searchResp'[s].status = 200
              /\ \E s0 \in AnsweredFor(searches'[s].q) :
                    searchResp'[s].items = searchResp[s0].items]_vars

\* C23: when the initial build has failed, no generation is recorded, the
\* service is not Ready, and it is still there, Uninitialized, for the next
\* access to start a fresh attempt.
C23_FailedInitialBuildRetried ==
    builds[0].st = "failed" =>
        /\ ~IsGeneration(kbFiles, kbChunks)
        /\ phase # "listening"
        /\ phase = "boot"

\* the Embedding Client calls that invocation b of indexKB has made: one for
\* each document with metadata up to the position it has reached
CallsOfBuild(b) ==
    Cardinality({i \in 1..builds[b].idx : kbDir[i].meta # NullMeta})

RECURSIVE CallsOfBuilds(_)
CallsOfBuilds(b) == IF b < 0 THEN 0 ELSE CallsOfBuild(b) + CallsOfBuilds(b - 1)

\* the number of windows of a text of len characters, and the chunk record
\* expected for window k of document d
NumWindows(len) ==
    (len + (ChunkSize - ChunkOverlap) - 1) \div (ChunkSize - ChunkOverlap)

ExpectedChunk(d, k, c) ==
    /\ c.id = <<Basename(d.fp), k>>
    /\ c.fileId = Basename(d.fp)
    /\ c.text.doc = d.fp
    /\ c.text.from = k * (ChunkSize - ChunkOverlap)
    /\ c.text.to = Min(c.text.from + ChunkSize, d.len)
    /\ c.embedding = Embedding(Basename(d.fp), k)

\* C24: every invocation of indexKB calls the Embedding Client once for each
\* valid document it has reached (a completed one: once per valid
\* document), and after a build that ran alone to its end each valid
\* document has one chunk record per window, the record of ordinal k holding
\* window k and the k-th vector returned for the document.
C24_OneEmbeddingCallPerDocument ==
    /\ embedCalls.build = CallsOfBuilds(MaxRequests)
    /\ \A b \in BuildIds : builds[b].st = "done" => CallsOfBuild(b) = NumValidDocuments
    /\ (phase = "listening" /\ buildEntries = 1) =>
          \A j \in 1..Len(kbDir) : kbDir[j].meta # NullMeta =>
              LET d == kbDir[j]
                  own == SelectSeq(kbChunks, LAMBDA c : c.text.doc = d.fp)
              IN /\ Len(own) = NumWindows(d.len)
                 /\ \A k \in 1..Len(own) : ExpectedChunk(d, k - 1, own[k])

\* C24 witness: the start-up build of a root with two valid documents, one
\* of them of two windows, has completed alone.
C24_Witness ==
    /\ phase = "listening"
    /\ buildEntries = 1
    /\ embedCalls.build = 2
    /\ Len(kbChunks) = 3
    /\ kbChunks[3].id = <<"b", 1>>

SameScore(x, y) == ~ScoreLess(x, y) /\ ~ScoreLess(y, x)

\* the position in the chunk order of the first of file f's chunks that has
\* the file's best score
EarliestBest(f, qEmb, chunks) ==
    LET best == BestScore(f, qEmb, chunks)
        at == {k \in 1..Len(chunks) :
                 /\ chunks[k].fileId = f
                 /\ SameScore(cosine(qEmb, chunks[k].embedding), best)}
    IN CHOOSE k \in at : \A m \in at : k <= m

\* the position of the chunk with identity id, where identities are unique
PositionOf(id, chunks) == CHOOSE k \in 1..Len(chunks) : chunks[k].id = id

UniqueIds(chunks) ==
    \A k, m \in 1..Len(chunks) : k # m => chunks[k].id # chunks[m].id

\* C25: chunks of equal score are ranked in the order they have in the
\* index, and among the files of an answer whose best chunks have equal
\* scores the one whose best chunk comes first in the index comes first.
C25_TiesKeepIndexOrder ==
    \A i \in 1..Len(reads) :
        LET qEmb == QueryEmbedding(Trim(searches[reads[i].s].q))
            chunks == reads[i].chunks
            items == searchResp[reads[i].s].items
            ranked == Scored(qEmb, chunks)
        IN /\ UniqueIds(chunks) =>
                 \A x, y \in 1..Len(ranked) :
                     (x < y /\ SameScore(ranked[x].score, ranked[y].score)) =>
                         PositionOf(ranked[x].id, chunks) < PositionOf(ranked[y].id, chunks)
           /\ \A x, y \in 1..Len(items) :
                 (/\ x < y
                  /\ SameScore(BestScore(items[x].id, qEmb, chunks),
                               BestScore(items[y].id, qEmb, chunks))) =>
                     EarliestBest(items[x].id, qEmb, chunks)
                         < EarliestBest(items[y].id, qEmb, chunks)

\* C25 witness: a search on a complete generation whose three chunks, of
\* two files, all have the same score was answered with both files, the
\* file indexed first in front.
C25_Witness ==
    \E i \in 1..Len(reads) :
        /\ ~reads[i].racing
        /\ ChunkIds(reads[i].chunks) = << <<"c", 0>>, <<"b", 0>>, <<"b", 1>> >>
        /\ FileIds(reads[i].files) = <<"c", "b">>
        /\ Len(searchResp[reads[i].s].items) = 2
        /\ searchResp[reads[i].s].items[1].id = "c"
        /\ searchResp[reads[i].s].items[2].id = "b"

\* C27: after a build that ran alone to its end, file records of different
\* source documents have different ids, also when the documents have the
\* same file name in different directories.
C27_DistinctDocumentsDistinctIds ==
    (phase = "listening" /\ buildEntries = 1) =>
        \A i, j \in 1..Len(kbFiles) :
            kbFiles[i].file # kbFiles[j].file => kbFiles[i].id # kbFiles[j].id

\* C26: for vectors a and b of equal length, cosine(a, b) is 0 whenever a or b
\* has zero magnitude, and the division is never by zero.
ZeroMagnitude(v) == \A i \in 1..Len(v) : v[i] = 0

C26_CosineZeroMagnitude ==
    frame.pc = "done" =>
        /\ frame.result.den # 0
        /\ (ZeroMagnitude(frame.a) \/ ZeroMagnitude(frame.b)) => frame.result.num = 0

C26_Witness ==
    /\ frame.pc = "done"
    /\ Len(frame.a) = MaxDim
    /\ ZeroMagnitude(frame.a)
    /\ ~ZeroMagnitude(frame.b)
    /\ frame.result = [num |-> 0, den |-> 1]

\* C28: an admin request is answered 429 exactly when more than 10 requests of
\* its client IP, itself and the rejected ones included, fall in the 60
\* seconds before it; otherwise the admin-key check decides, so the limit is
\* applied before authentication.
RequestsInWindow(ip, at) ==
    Cardinality({i \in DOMAIN adminSeen[ip] :
                    adminSeen[ip][i] > at - adminRateLimitWindowMs})

C28_RateLimitBeforeAuth ==
    adminLast.ip # None =>
        LET over == RequestsInWindow(adminLast.ip, adminLast.at) > adminRateLimitMax
        IN /\ (adminLast.status = 429) <=> over
           /\ ~over => adminLast.status = (IF adminLast.key = ADMIN_KEY THEN 200 ELSE 403)

\* a request with the right key is rejected by the limit, after requests of
\* the same IP that have left the window
C28_Witness ==
    /\ adminLast.ip # None
    /\ adminLast.status = 429
    /\ adminLast.key = ADMIN_KEY
    /\ Len(adminSeen[adminLast.ip]) > RequestsInWindow(adminLast.ip, adminLast.at)

\* C29: after any sequence of logEvent calls the stored history holds at most
\* 1000 entries, in append order, and they are the most recently logged ones.
C29_HistoryKeepsLast1000 ==
    /\ Len(history) <= HistoryLimit
    /\ Len(history) = Min(logged, HistoryLimit)
    /\ \A i \in 1..Len(history) : history[i] = logged - Len(history) + i

\* the limit has been exceeded more than once
C29_Witness ==
    /\ logged > HistoryLimit + 1
    /\ Len(history) = HistoryLimit
    /\ history[1] = logged - HistoryLimit + 1

\* C30: in a GET /api/chat stream, whatever the order of upstream tokens,
\* [DONE], end of stream, upstream error and client disconnect, 'done' is
\* written at most once, nothing is written after the response was ended, and
\* neither 'done' nor an error event is written after the client disconnected.
WritesOf(ev) == {i \in DOMAIN resOut : resOut[i].ev = ev}

C30_ChatStreamEndsOnce ==
    /\ Cardinality(WritesOf("done")) <= 1
    /\ \A i \in DOMAIN resOut : ~resOut[i].ended
    /\ \A i \in DOMAIN resOut :
          resOut[i].closed => resOut[i].ev \notin {"done", "server-error"}

\* the client disconnected after tokens were streamed, and the handler has
\* returned from its catch block
C30_Witness ==
    /\ chatPc = "returned"
    /\ aborted
    /\ WritesOf("token") # {}
    /\ WritesOf("done") = {}
    /\ ~writableEnded

============================================================================
